---- MODULE Spec2Model ----
(***************************************************************************)
(* sway-balance (src/src/main.rs): the locator (bfsearch, find_by_id,      *)
(* top_focus), min_swaps, balance and main, run against a window manager   *)
(* that owns the layout tree and may change it between two round-trips.    *)
(***************************************************************************)
EXTENDS Integers, Sequences, FiniteSets, TLC

VARIABLES
  wm,          \* the window manager's live tree
  workspaces,  \* the window manager's workspace list: <<[id, focused], ...>>
  ext,         \* external changes made so far
  pc,          \* where the program stands: start, connected, gotTree, loop, swap, done
  result,      \* "none" while running, then "Ok", an AppError, or a panic
  focusFlag,   \* --focus
  tree0,       \* main's `tree`, the start-up snapshot
  root,        \* identifier of `to_balance`, a node of tree0
  q,           \* balance's work queue
  cur,         \* balance's `cur`, the freshly fetched node
  initial_order, target_order, swaps,
  si,          \* index of the next pair of `swaps` to issue
  cmds,        \* every command sent to the window manager, with its outcome
  fetched,     \* every node get_latest_info returned: <<[id, at], ...>>, at the
               \* number of commands sent before
  fnIn, fnOut  \* input and output of a function applied on its own

vars == <<wm, workspaces, ext, pc, result, focusFlag, tree0, root, q, cur,
          initial_order, target_order, swaps, si, cmds, fetched, fnIn, fnOut>>

\* ------------------------------------------------------------------ bounds
MaxDim == 2        \* child sizes along an axis are drawn from 1..MaxDim
MaxExt == 1        \* external changes of the tree during one run
MaxLen == 4        \* longest order handed to min_swaps on its own
MaxSize == 3       \* child sizes handed to resize_node on its own: 1..MaxSize

\* ------------------------------------------------------------- the tree
\* A Node snapshot is a pair (t, n): t holds, per identifier, the fields of
\* swayipc::Node the program reads, n is the identifier of the snapshot's root.
TreeIds == 1..7
SpareIds == 8..(7 + MaxExt)
Ids == TreeIds \cup SpareIds
RootId == 1
NotFound == 0

SplitLayouts == {"splith", "splitv"}
Layouts == SplitLayouts \cup {"tabbed", "stacked", "none"}

\* children of every node of the start-up tree, whose second node has its
\* first k2 children of three:
\*   1 -> <<2, 7>>, 2 -> <<3, 4, 5>>, 3 -> <<6>>
BaseKids(k2) ==
  [n \in Ids |-> CASE n = 1 -> <<2, 7>>
                   [] n = 2 -> SubSeq(<<3, 4, 5>>, 1, k2)
                   [] n = 3 -> <<6>>
                   [] OTHER -> <<>>]

Range(s) == {s[i] : i \in DOMAIN s}

RECURSIVE Desc(_, _)
Desc(t, n) ==
  {n} \cup UNION {Desc(t, t.kids[n][i]) : i \in DOMAIN t.kids[n]}

Present(t) == Desc(t, RootId)

RECURSIVE DepthFrom(_, _, _)
\* depth of node n below r in t (r itself has depth 0); n is in Desc(t, r)
DepthFrom(t, r, n) ==
  IF n = r THEN 0
  ELSE LET c == CHOOSE i \in DOMAIN t.kids[r] : n \in Desc(t, t.kids[r][i])
       IN 1 + DepthFrom(t, t.kids[r][c], n)

\* ------------------------------------------------------------- locator
RECURSIVE dfsLoop(_, _, _)
\* bfsearch with a stack for its queue: a node's children are visited before
\* its siblings
dfsLoop(t, frontier, match) ==
  IF frontier = <<>> THEN NotFound
  ELSE LET n == Head(frontier) IN
       IF n \in match THEN n
       ELSE dfsLoop(t, t.kids[n] \o Tail(frontier), match)

RECURSIVE bfsLoop(_, _, _)
\* the `while let Some(n) = q.pop_front()` of bfsearch; frontier is its q,
\* match the set of identifiers the predicate holds for
bfsLoop(t, frontier, match) ==
  IF frontier = <<>> THEN NotFound
  ELSE LET n == Head(frontier) IN
       IF n \in match THEN n
       ELSE bfsLoop(t, Tail(frontier) \o t.kids[n], match)

\* bfsearch whose queue starts with the children of the root, not the root
bfsearch_below(t, from, match) == bfsLoop(t, t.kids[from], match)

bfsearch(t, from, match) == bfsLoop(t, <<from>>, match)

find_by_id(t, from, id) == bfsearch(t, from, {n \in Ids : n = id})

top_focus(t, from) == bfsearch(t, from, {n \in Ids : t.focused[n]})

\* ------------------------------------------------------------- min_swaps
\* ord2.iter().position(|y| *y == v).unwrap(): the first index holding v
position(ord, v) ==
  CHOOSE i \in DOMAIN ord : ord[i] = v /\ \A j \in DOMAIN ord : ord[j] = v => i <= j

SwapAt(s, a, b) == [s EXCEPT ![a] = s[b], ![b] = s[a]]

RECURSIVE msLoop(_, _, _, _, _)
\* the inner `loop` of min_swaps for one i; st = [res, visited, swaps]
msLoop(ord1, ord2, i, idx, st) ==
  IF st.res[i] = ord2[i] THEN st
  ELSE IF st.visited[idx] THEN st
  ELSE LET target_idx == position(ord2, st.res[idx])
       IN msLoop(ord1, ord2, i, target_idx,
                 [res     |-> SwapAt(st.res, idx, target_idx),
                  visited |-> [st.visited EXCEPT ![idx] = TRUE],
                  swaps   |-> Append(st.swaps, <<ord1[idx], ord1[target_idx]>>)])

RECURSIVE msFor(_, _, _, _)
msFor(ord1, ord2, i, st) ==
  IF i > Len(ord1) THEN st
  ELSE msFor(ord1, ord2, i + 1, msLoop(ord1, ord2, i, i, st))

min_swaps(ord1, ord2) ==
  msFor(ord1, ord2, 1,
        [res |-> ord1, visited |-> [k \in DOMAIN ord1 |-> FALSE], swaps |-> <<>>]).swaps

\* ------------------------------------------------------- balance, pure part
\* the match on cur.layout with every other layout handled like SplitH
dim_getter_any(layout) == IF layout = "splitv" THEN "height" ELSE "width"

\* the match on cur.layout: which field of rect the sort reads
dim_getter(layout) ==
  CASE layout = "splith" -> "width"
    [] layout = "splitv" -> "height"
    [] OTHER -> "unreachable"

get_dim(t, field, n) == IF field = "width" THEN t.width[n] ELSE t.height[n]

\* x goes ahead of the elements whose key equals its own: descending, but
\* equal elements end up in reverse order
InsertDesc_unstable(s, x, key) ==
  LET p == Cardinality({i \in DOMAIN s : key[s[i]] > key[x]})
  IN SubSeq(s, 1, p) \o <<x>> \o SubSeq(s, p + 1, Len(s))

\* x goes behind every element whose key is at least its own: stable, descending
InsertDesc(s, x, key) ==
  LET p == Cardinality({i \in DOMAIN s : key[s[i]] >= key[x]})
  IN SubSeq(s, 1, p) \o <<x>> \o SubSeq(s, p + 1, Len(s))

RECURSIVE sortFrom(_, _, _, _)
sortFrom(nodes, i, acc, key) ==
  IF i > Len(nodes) THEN acc
  ELSE sortFrom(nodes, i + 1, InsertDesc(acc, nodes[i], key), key)

\* sorted_nodes.sort_by(|x,y| i32::cmp(&get_dim(y), &get_dim(x)))
sort_by_dim_desc(nodes, key) == sortFrom(nodes, 1, <<>>, key)

\* the loop body with the match on the layout ahead of the test for children
after_fetch_match_first(nodes, layout) ==
  IF dim_getter(layout) = "unreachable" THEN "unreachable"
  ELSE IF nodes = <<>> THEN "continue"
  ELSE "sort"

\* how the loop body goes on with the fetched node: `continue` for a node
\* without children, unreachable!() for a layout that is no split, else the sort
after_fetch(nodes, layout) ==
  IF nodes = <<>> THEN "continue"
  ELSE IF dim_getter(layout) = "unreachable" THEN "unreachable"
  ELSE "sort"

\* a queue that puts the identifier it took from the front back at the end
next_queue_again(queue, nodes) == Append(Tail(queue), Head(queue))

\* the queue after one pass: q.pop_front() took its head, and nothing is added
\* (the q.extend of the children, nodes, is commented out)
next_queue(queue, nodes) == Tail(queue)

\* get_latest_info that trusts the identifier without looking it up
get_latest_info_stale(t, node_id) == node_id

\* get_latest_info after a successful get_tree: the node, or NotFound for
\* Err(NodeGone); t is the tree the query returned
get_latest_info(t, node_id) == find_by_id(t, RootId, node_id)

\* the outcome of a swap command with an empty list of outcomes taken for success
swap_result_lenient(out) == IF out \in {"ok", "empty"} THEN "none" ELSE "Swap"

\* .map_err(|_| Swap)?.pop().ok_or(Swap)?.map_err(|_| Swap)? on the outcome of
\* a swap command: a transport failure, an empty list, a failed command, or ok
swap_result(out) == IF out = "ok" THEN "none" ELSE "Swap"

\* ------------------------------------------------------------- resize_node
\* what a resize command can come back with: run_command fails, the list of
\* outcomes is empty, or its first outcome is Ok, an error, or the error sway
\* gives when the container cannot be resized any further
ResizeOutcomes == {"ok", "transport", "empty", "failed", "cannot_resize"}

\* .map_err(|_| Resize)? / res.first().ok_or(Resize)? / the match on the first
\* outcome: Ok(_) => Ok(()), Err(_) => Err(Resize)
resize_result(out) == IF out = "ok" THEN "Ok" ELSE "Resize"

\* resize_node(conn, n, parent) on tree t when the command comes back with
\* out: the result and the commands sent. parent has at least one child.
resize_node(t, n, parent, out) ==
  LET lay == t.layout[parent]
      field == IF lay = "splith" THEN "width" ELSE "height"
      dir == IF lay = "splith" THEN "right" ELSE "down"
      desired_dim == get_dim(t, field, parent) \div Len(t.kids[parent])
      diff == get_dim(t, field, n) - desired_dim
      cmd == [op |-> "resize", id |-> n, verb |-> "shrink", dir |-> dir,
              px |-> diff]
  IN IF lay \notin SplitLayouts THEN [result |-> "Ok", cmds |-> <<>>]
     ELSE IF diff < 0 THEN [result |-> "panic_assert", cmds |-> <<>>]
     ELSE [result |-> resize_result(out), cmds |-> <<cmd>>]

\* ------------------------------------------------------------ main, pure part
FirstFocused(wss) ==
  IF \E i \in DOMAIN wss : wss[i].focused
  THEN wss[CHOOSE i \in DOMAIN wss :
             wss[i].focused /\ \A j \in DOMAIN wss : wss[j].focused => i <= j].id
  ELSE NotFound

\* main searching the focus from the root of the tree, not from the workspace
to_balance_whole(flag, t, wss) ==
  LET fw == FirstFocused(wss)
      node == IF fw = NotFound THEN NotFound ELSE find_by_id(t, RootId, fw)
  IN IF node = NotFound THEN NotFound
     ELSE IF flag THEN top_focus(t, RootId)
     ELSE node

\* the node main hands to balance, NotFound where main returns NoFocus
to_balance(flag, t, wss) ==
  LET fw == FirstFocused(wss)
      node == IF fw = NotFound THEN NotFound ELSE find_by_id(t, RootId, fw)
  IN IF node = NotFound THEN NotFound
     ELSE IF flag THEN top_focus(t, node)
     ELSE node

\* ------------------------------------------------------- the window manager
Parent(t, n) == CHOOSE p \in Present(t) : n \in Range(t.kids[p])

Without(s, x) == SelectSeq(s, LAMBDA e : e # x)

\* the tree after node n and all below it are gone
Closed(t, n) ==
  LET gone == Desc(t, n)
      p == Parent(t, n)
  IN [kids    |-> [m \in Ids |-> IF m \in gone THEN <<>>
                                 ELSE IF m = p THEN Without(t.kids[m], n)
                                 ELSE t.kids[m]],
      layout  |-> [m \in Ids |-> IF m \in gone THEN "none" ELSE t.layout[m]],
      focused |-> [m \in Ids |-> IF m \in gone THEN FALSE ELSE t.focused[m]],
      width   |-> [m \in Ids |-> IF m \in gone THEN 0 ELSE t.width[m]],
      height  |-> [m \in Ids |-> IF m \in gone THEN 0 ELSE t.height[m]]]

\* the tree after a new leaf n, as large as a start-up child can be, is
\* appended to p's children
Opened(t, p, n) ==
  [t EXCEPT !.kids[p] = Append(@, n), !.width[n] = MaxDim, !.height[n] = MaxDim]

\* `swap container`: x and y exchange places. keepGeom: each place keeps its
\* rectangle (the containers exchange geometry); otherwise each container
\* takes its rectangle along.
Swapped(t, x, y, keepGeom) ==
  LET sw(m) == IF m = x THEN y ELSE IF m = y THEN x ELSE m
  IN [t EXCEPT
        !.kids = [m \in Ids |-> [i \in DOMAIN t.kids[m] |-> sw(t.kids[m][i])]],
        !.width = [m \in Ids |-> IF keepGeom THEN t.width[sw(m)] ELSE t.width[m]],
        !.height = [m \in Ids |-> IF keepGeom THEN t.height[sw(m)] ELSE t.height[m]]]

\* a swap can succeed only for two different present containers, neither of
\* them inside the other
CanSwap(t, x, y) ==
  /\ x # y
  /\ x \in Present(t) \ {RootId}
  /\ y \in Present(t) \ {RootId}
  /\ x \notin Desc(t, y) \ {y}
  /\ y \notin Desc(t, x) \ {x}

\* ------------------------------------------------------------------ Init
\* The start-up tree: the second node is a workspace of layout lay2 whose
\* children have the sizes sz along its axis (along x unless lay2 is splitv)
\* and fill it; across the axis every node is MaxDim wide.
StartTree(lay2, sz, foc) ==
  LET kids == BaseKids(Len(sz))
      here == {1, 2, 3, 6, 7} \cup Range(kids[2])
      total == IF Len(sz) = 3 THEN sz[1] + sz[2] + sz[3] ELSE sz[1] + sz[2]
      along == [n \in Ids |-> IF n \in Range(kids[2]) THEN sz[n - 2]
                              ELSE IF n = 6 THEN sz[1]
                              ELSE IF n \in here THEN total ELSE 0]
      cross == [n \in Ids |-> IF n \in here THEN MaxDim ELSE 0]
  IN [kids    |-> kids,
      layout  |-> [n \in Ids |-> CASE n = 2 -> lay2
                                   [] n \in {1, 3, 7} -> "splith"
                                   [] OTHER -> "none"],
      focused |-> [n \in Ids |-> n \in foc],
      width   |-> IF lay2 = "splitv" THEN cross ELSE along,
      height  |-> IF lay2 = "splitv" THEN along ELSE cross]

StartSizes == [1..2 -> 1..MaxDim] \cup [1..3 -> 1..MaxDim]

StartTrees ==
  {StartTree(lay2, sz, foc) :
     lay2 \in Layouts, sz \in StartSizes,
     foc \in SUBSET {2, 3, 4, 6}}

StartWorkspaces ==
  {<<[id |-> 2, focused |-> a], [id |-> 7, focused |-> b]>> :
     a \in BOOLEAN, b \in BOOLEAN} \ 
  {<<[id |-> 2, focused |-> TRUE], [id |-> 7, focused |-> TRUE]>>}

NoNode == [id |-> NotFound, layout |-> "none", nodes |-> <<>>]
NoTree ==
  [kids    |-> [n \in Ids |-> <<>>],
   layout  |-> [n \in Ids |-> "none"],
   focused |-> [n \in Ids |-> FALSE],
   width   |-> [n \in Ids |-> 0],
   height  |-> [n \in Ids |-> 0]]

ProgramInit ==
  /\ pc = "start"
  /\ result = "none"
  /\ tree0 = NoTree
  /\ root = NotFound
  /\ q = <<>>
  /\ cur = NoNode
  /\ initial_order = <<>>
  /\ target_order = <<>>
  /\ swaps = <<>>
  /\ si = 1
  /\ cmds = <<>>
  /\ fetched = <<>>

Init ==
  /\ wm \in StartTrees
  /\ workspaces \in StartWorkspaces
  /\ ext = 0
  /\ focusFlag \in BOOLEAN
  /\ ProgramInit
  /\ fnIn = [kind |-> "none"]
  /\ fnOut = [done |-> FALSE]

\* ------------------------------------------------------------------ main
worldVars == <<wm, workspaces, ext>>
balanceVars == <<root, q, cur, initial_order, target_order, swaps, si, cmds, fetched>>
fnVars == <<fnIn, fnOut>>

Fail(err) == pc' = "done" /\ result' = err

\* swayipc::Connection::new().map_err(|_| AppError::Conn)?
MainConnect ==
  /\ pc = "start"
  /\ \E ok \in BOOLEAN :
       IF ok THEN pc' = "connected" /\ UNCHANGED result ELSE Fail("Conn")
  /\ UNCHANGED <<worldVars, focusFlag, tree0, balanceVars, fnVars>>

\* conn.get_tree().map_err(|_| AppError::GetTree)?
MainGetTree ==
  /\ pc = "connected"
  /\ \E ok \in BOOLEAN :
       IF ok THEN pc' = "gotTree" /\ tree0' = wm /\ UNCHANGED result
       ELSE Fail("GetTree") /\ UNCHANGED tree0
  /\ UNCHANGED <<worldVars, focusFlag, balanceVars, fnVars>>

\* conn.get_workspaces(), the choice of to_balance, and balance's first line
MainGetWorkspaces ==
  /\ pc = "gotTree"
  /\ \E ok \in BOOLEAN :
       IF ~ok THEN Fail("GetWorkspaces") /\ UNCHANGED <<root, q>>
       ELSE LET tb == to_balance(focusFlag, tree0, workspaces)
            IN IF tb = NotFound THEN Fail("NoFocus") /\ UNCHANGED <<root, q>>
               ELSE /\ pc' = "loop"
                    /\ root' = tb
                    /\ q' = <<tb>>
                    /\ UNCHANGED result
  /\ UNCHANGED <<worldVars, focusFlag, tree0, cur, initial_order, target_order,
                 swaps, si, cmds, fetched, fnVars>>

\* --------------------------------------------------------------- balance
\* `while let Some(cur_id) = q.pop_front()` with q empty: Ok(())
BalanceReturn ==
  /\ pc = "loop"
  /\ q = <<>>
  /\ pc' = "done"
  /\ result' = "Ok"
  /\ UNCHANGED <<worldVars, focusFlag, tree0, balanceVars, fnVars>>

\* one pass of the loop body up to the first swap command: get_latest_info, the
\* match on the layout, the sort, min_swaps and the eprintln! of the widths
BalanceFetch ==
  /\ pc = "loop"
  /\ q # <<>>
  /\ \E ok \in BOOLEAN :
       LET cur_id == Head(q)
           found == get_latest_info(wm, cur_id)
           init == wm.kids[found]
           way == after_fetch(init, wm.layout[found])
           field == dim_getter(wm.layout[found])
           key == [n \in Ids |-> get_dim(wm, field, n)]
           targ == sort_by_dim_desc(init, key)
           keep == UNCHANGED <<cur, initial_order, target_order, swaps, si, fetched>>
       IN IF ~ok THEN Fail("GetTree") /\ q' = Tail(q) /\ keep
          ELSE IF found = NotFound THEN Fail("NodeGone") /\ q' = Tail(q) /\ keep
          ELSE /\ cur' = [id |-> found, layout |-> wm.layout[found], nodes |-> init]
               /\ fetched' = Append(fetched, [id |-> found, at |-> Len(cmds)])
               /\ q' = next_queue(q, init)
               /\ IF way = "continue"
                  THEN /\ pc' = "loop"
                       /\ UNCHANGED <<result, initial_order, target_order, swaps, si>>
                  ELSE IF way = "unreachable"
                  THEN /\ Fail("panic_unreachable")
                       /\ UNCHANGED <<initial_order, target_order, swaps, si>>
                  ELSE /\ initial_order' = init
                       /\ target_order' = targ
                       /\ swaps' = min_swaps(init, targ)
                       /\ si' = 1
                       /\ IF \E i \in DOMAIN targ :
                               find_by_id(tree0, root, targ[i]) = NotFound
                          THEN Fail("panic_unwrap")
                          ELSE /\ pc' = IF swaps' = <<>> THEN "loop" ELSE "swap"
                               /\ UNCHANGED result
  /\ UNCHANGED <<worldVars, focusFlag, tree0, root, cmds, fnVars>>

SwapOutcomes == {"ok", "transport", "empty", "failed"}

\* one round of `for (x,y) in &swaps`: the command and the three `?`
BalanceSwap ==
  /\ pc = "swap"
  /\ LET x == swaps[si][1]
         y == swaps[si][2]
     IN \E out \in SwapOutcomes, keepGeom \in BOOLEAN :
          /\ out = "ok" => CanSwap(wm, x, y)
          /\ out # "ok" => keepGeom
          /\ cmds' = Append(cmds, [op |-> "swap", x |-> x, y |-> y, out |-> out])
          /\ wm' = IF out = "ok" THEN Swapped(wm, x, y, keepGeom) ELSE wm
          /\ IF swap_result(out) = "none"
             THEN /\ si' = si + 1
                  /\ pc' = IF si = Len(swaps) THEN "loop" ELSE "swap"
                  /\ UNCHANGED result
             ELSE /\ Fail(swap_result(out))
                  /\ UNCHANGED si
  /\ UNCHANGED <<workspaces, ext, focusFlag, tree0, root, q, cur, initial_order,
                 target_order, swaps, fetched, fnVars>>

\* ------------------------------------------------- the tree changes meanwhile
FocusedWs == {workspaces[i].id : i \in {j \in DOMAIN workspaces : workspaces[j].focused}}

Running == pc \in {"gotTree", "loop", "swap"}

\* a container of the focused workspace, or that workspace, closes
ExtClose ==
  /\ Running
  /\ ext < MaxExt
  /\ \E n \in UNION {Desc(wm, w) : w \in FocusedWs \cap Present(wm)} :
       /\ wm' = Closed(wm, n)
       /\ workspaces' = SelectSeq(workspaces, LAMBDA w : w.id # n)
  /\ ext' = ext + 1
  /\ UNCHANGED <<pc, result, focusFlag, tree0, balanceVars, fnVars>>

\* a window opens in the focused workspace, or, under the root, a new workspace
\* opens and takes the focus
ExtOpen ==
  /\ Running
  /\ ext < MaxExt
  /\ \E p \in {RootId} \cup FocusedWs :
       LET n == 7 + ext + 1 IN
       /\ wm' = Opened(wm, p, n)
       /\ workspaces' =
            IF p = RootId
            THEN Append([i \in DOMAIN workspaces |->
                           [workspaces[i] EXCEPT !.focused = FALSE]],
                        [id |-> n, focused |-> TRUE])
            ELSE workspaces
  /\ ext' = ext + 1
  /\ UNCHANGED <<pc, result, focusFlag, tree0, balanceVars, fnVars>>

Next ==
  \/ MainConnect
  \/ MainGetTree
  \/ MainGetWorkspaces
  \/ BalanceReturn
  \/ BalanceFetch
  \/ BalanceSwap
  \/ ExtClose
  \/ ExtOpen

Spec == Init /\ [][Next]_vars

\* ------------------------------------- the pure functions applied on their own
Perms(n) == {s \in [1..n -> 1..n] : \A i, j \in 1..n : s[i] = s[j] => i = j}

\* two orders of the same identifiers, of every length up to MaxLen
OrderInputs ==
  {[kind |-> "min_swaps", ord1 |-> pair[1], ord2 |-> pair[2]] :
     pair \in UNION {Perms(n) \X Perms(n) : n \in 0..MaxLen}}

\* the start-up trees with any set of nodes flagged focused, whole or with one
\* subtree closed, searched from any of their nodes
SearchTrees ==
  LET whole == {StartTree("splith", sz, foc) :
                  sz \in {<<1, 1>>, <<1, 1, 1>>}, foc \in SUBSET TreeIds}
  IN whole \cup {Closed(t, n) : t \in whole, n \in {3, 4, 6, 7}}

SearchInputs ==
  {i \in [kind : {"search"}, t : SearchTrees, from : TreeIds] :
     i.from \in Present(i.t)}

\* a container of any layout with two or three children of sizes up to
\* MaxSize along its axis, and one of its children
ResizeSizes == [1..2 -> 1..MaxSize] \cup [1..3 -> 1..MaxSize]

ResizeTrees == {StartTree(lay2, sz, {}) : lay2 \in Layouts, sz \in ResizeSizes}

ResizeInputs ==
  {i \in [kind : {"resize"}, t : ResizeTrees, parent : {2}, n : {3, 4, 5}] :
     i.n \in Range(i.t.kids[i.parent])}

InitFn ==
  /\ wm = NoTree
  /\ workspaces = <<>>
  /\ ext = 0
  /\ focusFlag = FALSE
  /\ ProgramInit
  /\ fnIn \in OrderInputs \cup SearchInputs \cup ResizeInputs
  /\ fnOut = [done |-> FALSE]

programVars == <<worldVars, pc, result, focusFlag, tree0, balanceVars>>

ApplyMinSwaps ==
  /\ fnIn.kind = "min_swaps"
  /\ ~fnOut.done
  /\ fnOut' = [done |-> TRUE, op |-> "min_swaps",
               swaps |-> min_swaps(fnIn.ord1, fnIn.ord2)]
  /\ UNCHANGED <<programVars, fnIn>>

ApplyTopFocus ==
  /\ fnIn.kind = "search"
  /\ ~fnOut.done
  /\ fnOut' = [done |-> TRUE, op |-> "top_focus", id |-> NotFound,
               node |-> top_focus(fnIn.t, fnIn.from)]
  /\ UNCHANGED <<programVars, fnIn>>

ApplyFindById ==
  /\ fnIn.kind = "search"
  /\ ~fnOut.done
  /\ \E id \in Ids :
       fnOut' = [done |-> TRUE, op |-> "find_by_id", id |-> id,
                 node |-> find_by_id(fnIn.t, fnIn.from, id)]
  /\ UNCHANGED <<programVars, fnIn>>

ApplyResizeNode ==
  /\ fnIn.kind = "resize"
  /\ ~fnOut.done
  /\ \E out \in ResizeOutcomes :
       LET r == resize_node(fnIn.t, fnIn.n, fnIn.parent, out)
       IN fnOut' = [done |-> TRUE, op |-> "resize_node", out |-> out,
                    result |-> r.result, cmds |-> r.cmds]
  /\ UNCHANGED <<programVars, fnIn>>

NextFn ==
  \/ ApplyMinSwaps
  \/ ApplyTopFocus
  \/ ApplyFindById
  \/ ApplyResizeNode

SpecFn == InitFn /\ [][NextFn]_vars

\* ================================================================== claims
\* what `[con_id=x] swap container with con_id y` does to an order of siblings
ExchangeIds(ord, x, y) ==
  [i \in DOMAIN ord |-> IF ord[i] = x THEN y ELSE IF ord[i] = y THEN x ELSE ord[i]]

RECURSIVE ApplySwaps(_, _)
ApplySwaps(ord, pairs) ==
  IF pairs = <<>> THEN ord
  ELSE ApplySwaps(ExchangeIds(ord, pairs[1][1], pairs[1][2]), Tail(pairs))

RECURSIVE Orbit(_, _, _)
\* the positions on the cycle through i of the permutation sigma
Orbit(sigma, i, seen) ==
  IF i \in seen THEN seen ELSE Orbit(sigma, sigma[i], seen \cup {i})

\* sum over the cycles of (cycle_length - 1), for the permutation taking each
\* position of ord1 to the position its identifier has in ord2
CycleSwaps(ord1, ord2) ==
  LET sigma == [i \in DOMAIN ord1 |-> position(ord2, ord1[i])]
  IN Len(ord1) - Cardinality({Orbit(sigma, i, {}) : i \in DOMAIN ord1})

MinSwapsApplied == fnOut.done /\ fnOut.op = "min_swaps"

\* C2: the pairs min_swaps(ord1, ord2) returns, applied in sequence to ord1 as
\* swap commands (each exchanging the two identifiers), yield exactly ord2.
C2_SwapsYieldTarget ==
  MinSwapsApplied => ApplySwaps(fnIn.ord1, fnOut.swaps) = fnIn.ord2

\* C3: min_swaps(ord1, ord2) returns as many pairs as the sum over the cycles of
\* the permutation from ord1 to ord2 of (cycle_length - 1), none when ord1 = ord2.
C3_SwapCountIsCycleSum ==
  MinSwapsApplied => Len(fnOut.swaps) = CycleSwaps(fnIn.ord1, fnIn.ord2)

\* size of node n along the split axis of container p
AxisSize(t, p, n) == IF t.layout[p] = "splith" THEN t.width[n] ELSE t.height[n]

\* every child of p but the last is floor(total / k), the last has the rest
Balanced(t, p) ==
  LET k == Len(t.kids[p])
      want == AxisSize(t, p, p) \div k
  IN /\ \A i \in 1..(k - 1) : AxisSize(t, p, t.kids[p][i]) = want
     /\ AxisSize(t, p, t.kids[p][k]) = AxisSize(t, p, p) - (k - 1) * want

IsSplit(t, n) == t.kids[n] # <<>> /\ t.layout[n] \in SplitLayouts

\* C1: after balance returns success on a split container with k >= 1 children,
\* with no external change during the run, every child but the last is
\* floor(total_dim / k) along the split axis and the last holds the remainder.
C1_BalancedAfterSuccess ==
  (result = "Ok" /\ ext = 0 /\ root # NotFound /\ IsSplit(tree0, root))
    => Balanced(wm, root)

FetchedUnsupported == cur.nodes # <<>> /\ cur.layout \notin SplitLayouts

\* C4: once balance has fetched a node with children whose layout is no split,
\* no command names a child of that node.
C4_NoCommandForUnsupported ==
  FetchedUnsupported =>
    \A i \in DOMAIN cmds :
      cmds[i].x \notin Range(cur.nodes) /\ cmds[i].y \notin Range(cur.nodes)

\* an unsupported container was fetched whose children a sort by width would reorder
C4_Witness ==
  /\ FetchedUnsupported
  /\ pc = "done"
  /\ \E i, j \in DOMAIN cur.nodes :
       i < j /\ wm.width[cur.nodes[i]] < wm.width[cur.nodes[j]]

\* the step in which balance fetches a node with children and no split layout
FetchesUnsupported ==
  /\ pc = "loop"
  /\ q # <<>>
  /\ cur'.id = Head(q)
  /\ cur'.nodes # <<>>
  /\ cur'.layout \notin SplitLayouts

\* C5: fetching a node with children and no split layout, balance skips it
\* without aborting, enqueues its children, and goes on with the queue.
C5_UnsupportedIsSkipped ==
  [][FetchesUnsupported =>
       result' = "none" /\ pc' = "loop" /\ q' = Tail(q) \o cur'.nodes]_vars

BalancedBelow(t, r) == \A n \in Desc(t, r) : IsSplit(t, n) => Balanced(t, n)

\* C6: a run of balance on an already-balanced tree issues no effective resize
\* command and leaves the sizes and the order of the children as they were.
C6_Idempotent ==
  (result = "Ok" /\ ext = 0 /\ root # NotFound /\ BalancedBelow(tree0, root))
    => /\ wm.kids = tree0.kids
       /\ wm.width = tree0.width
       /\ wm.height = tree0.height
       /\ \A i \in DOMAIN cmds : cmds[i].op # "resize"

\* the step that issues a swap command which fails
SwapFails ==
  /\ Len(cmds') = Len(cmds) + 1
  /\ cmds'[Len(cmds')].op = "swap"
  /\ cmds'[Len(cmds')].out # "ok"

\* C7: a failing swap command makes balance return Swap at once; no command
\* follows, and the commands sent before stay as they were sent.
C7_SwapFailureIsFatal ==
  [][/\ SwapFails => result' = "Swap" /\ pc' = "done" /\ SubSeq(cmds', 1, Len(cmds)) = cmds
     /\ result = "Swap" => cmds' = cmds]_vars

\* a swap failed after an earlier one had taken effect, which still shows
C7_Witness ==
  /\ result = "Swap"
  /\ Len(cmds) >= 2
  /\ cmds[1].out = "ok"
  /\ ext = 0
  /\ wm.kids # tree0.kids

\* the step in which balance dequeues an identifier the live tree no longer has
FetchesGone ==
  /\ pc = "loop"
  /\ q # <<>>
  /\ q' # q
  /\ Head(q) \notin Present(wm)

\* C8: dequeuing an identifier that is gone from the freshly queried tree,
\* balance returns NodeGone (GetTree when the query fails), and no command follows.
C8_VanishedNodeIsFatal ==
  [][/\ FetchesGone => result' \in {"NodeGone", "GetTree"} /\ pc' = "done" /\ cmds' = cmds
     /\ result \in {"NodeGone", "GetTree"} => cmds' = cmds]_vars

C8_Witness == result = "NodeGone" /\ root \notin Present(wm) /\ root \in Present(tree0)

FocusedBelow(t, w) == {n \in Desc(t, w) : t.focused[n]}

\* the step in which main, its queries answered, settles what to balance
Resolves == pc = "gotTree" /\ pc' # "gotTree" /\ result' # "GetWorkspaces"

\* C9: main hands balance the focused workspace's node without --focus, and with
\* it a focused node of least depth below that workspace; with no focused
\* workspace, its id absent from the tree, or no focused node below it, main
\* returns NoFocus and no command is sent.
C9_TargetOfMain ==
  [][/\ Resolves =>
          IF \/ FocusedWs = {}
             \/ \A w \in FocusedWs : w \notin Present(tree0)
             \/ focusFlag /\ \A w \in FocusedWs : FocusedBelow(tree0, w) = {}
          THEN result' = "NoFocus" /\ cmds' = <<>>
          ELSE \E w \in FocusedWs :
                 /\ result' = "none"
                 /\ q' = <<root'>>
                 /\ ~focusFlag => root' = w
                 /\ focusFlag =>
                      /\ root' \in FocusedBelow(tree0, w)
                      /\ \A n \in FocusedBelow(tree0, w) :
                           DepthFrom(tree0, w, n) >= DepthFrom(tree0, w, root')
     /\ result = "NoFocus" => cmds' = cmds]_vars

\* --focus chose a node below which another node is flagged focused too
C9_Witness ==
  /\ focusFlag
  /\ result = "none"
  /\ root # NotFound
  /\ \E n \in Desc(tree0, root) \ {root} : tree0.focused[n]

TopFocusApplied == fnOut.done /\ fnOut.op = "top_focus"

\* C10: top_focus returns a focused node of least depth, also with several
\* focused nodes on one path, and not-found exactly when no node is focused.
C10_TopFocusShallowest ==
  TopFocusApplied =>
    LET F == FocusedBelow(fnIn.t, fnIn.from) IN
    /\ fnOut.node = NotFound <=> F = {}
    /\ fnOut.node # NotFound =>
         /\ fnOut.node \in F
         /\ \A n \in F : DepthFrom(fnIn.t, fnIn.from, n)
                           >= DepthFrom(fnIn.t, fnIn.from, fnOut.node)

\* two focused nodes on one path, and a third, shallower than the deeper of them
C10_Witness ==
  /\ TopFocusApplied
  /\ fnOut.node # NotFound
  /\ \E n \in FocusedBelow(fnIn.t, fnIn.from) \ {fnOut.node} :
       n \in Desc(fnIn.t, fnOut.node)
  /\ \E n, m \in FocusedBelow(fnIn.t, fnIn.from) :
       /\ n \notin Desc(fnIn.t, m)
       /\ m \notin Desc(fnIn.t, n)

FindByIdApplied == fnOut.done /\ fnOut.op = "find_by_id"

\* C11: find_by_id(root, X) returns the node with identifier X when the tree
\* below root, root included, has it, and not-found when it has not.
C11_FindByIdFinds ==
  FindByIdApplied =>
    IF fnOut.id \in Desc(fnIn.t, fnIn.from)
    THEN fnOut.node = fnOut.id
    ELSE fnOut.node = NotFound

\* the identifier searched for is the root's own, in a tree with other nodes
C11_Witness ==
  /\ FindByIdApplied
  /\ fnOut.id = fnIn.from
  /\ fnOut.node = fnIn.from
  /\ fnIn.t.kids[fnIn.from] # <<>>

FetchedIds == {fetched[i].id : i \in DOMAIN fetched}

\* C12: a successful run of balance has fetched every container with children
\* below the target, the target included, not only the target.
C12_AllContainersFetched ==
  (result = "Ok" /\ ext = 0 /\ root # NotFound) =>
    \A n \in Desc(tree0, root) : tree0.kids[n] # <<>> => n \in FetchedIds

\* C13: every command after the first is sent on a snapshot fetched after the
\* command before it: a fetch lies between any two commands.
C13_FetchBetweenCommands ==
  \A k \in 2..Len(cmds) : \E i \in DOMAIN fetched : fetched[i].at = k - 1

ResizeApplied == fnOut.done /\ fnOut.op = "resize_node"

\* the child's size along the parent's axis, and the share it should have
ResizeField == IF fnIn.t.layout[fnIn.parent] = "splith" THEN "width" ELSE "height"
ResizeSize == get_dim(fnIn.t, ResizeField, fnIn.n)
ResizeDesired ==
  get_dim(fnIn.t, ResizeField, fnIn.parent) \div Len(fnIn.t.kids[fnIn.parent])
NonLastChild ==
  \E i \in 1..(Len(fnIn.t.kids[fnIn.parent]) - 1) :
    fnIn.t.kids[fnIn.parent][i] = fnIn.n

\* C14: for a non-last child of a split container resize_node never aborts;
\* it sends a shrink of size - desired_dim for a child larger than desired_dim
\* and a grow of desired_dim - size for a child smaller than it.
C14_ShrinkOrGrow ==
  (ResizeApplied /\ IsSplit(fnIn.t, fnIn.parent) /\ NonLastChild) =>
    /\ fnOut.result # "panic_assert"
    /\ ResizeSize > ResizeDesired =>
         /\ Len(fnOut.cmds) = 1
         /\ fnOut.cmds[1].verb = "shrink"
         /\ fnOut.cmds[1].px = ResizeSize - ResizeDesired
    /\ ResizeSize < ResizeDesired =>
         /\ Len(fnOut.cmds) = 1
         /\ fnOut.cmds[1].verb = "grow"
         /\ fnOut.cmds[1].px = ResizeDesired - ResizeSize

\* C15: a resize command that comes back with `cannot resize further` gives
\* no fatal error; every other failure of the command gives Resize.
C15_CannotResizeIsNotFatal ==
  (ResizeApplied /\ fnOut.cmds # <<>>) =>
    /\ fnOut.out = "cannot_resize" => fnOut.result = "Ok"
    /\ fnOut.out \in {"transport", "empty", "failed"} => fnOut.result = "Resize"

\* what one pass of balance can cost at most: the fetch, and one command for
\* each pair of min_swaps, which returns no more pairs than there are nodes
PassCost == Cardinality(Ids) + 2

\* a measure of the work balance has left: the swaps of this pass still to
\* send, and a full pass for every identifier in the queue
Rank ==
  CASE pc = "swap" -> 1 + (Len(swaps) - si + 1) + Len(q) * PassCost
    [] pc = "loop" -> 1 + Len(q) * PassCost
    [] OTHER -> 0

\* C16: every run of balance terminates whatever the tree does meanwhile and
\* whatever the commands return: every step of balance (a query or a command)
\* strictly lowers Rank, a natural number no step of the window manager
\* touches, so balance takes finitely many steps before it returns.
C16_BalanceTerminates ==
  /\ [](Rank \in Nat)
  /\ [][(pc \in {"loop", "swap"} /\ <<pc, balanceVars>>' # <<pc, balanceVars>>)
          => Rank' < Rank]_vars

C16_Witness ==
  /\ pc = "done"
  /\ root # NotFound
  /\ fetched # <<>>
  /\ cmds # <<>>
  /\ ext > 0

\* C17: a fetched node without children is skipped whatever its layout is: no
\* command, no error, the queue loses its head; when that node is the target,
\* balance returns success having sent no command.
C17_ChildlessIsSkipped ==
  /\ [][(pc = "loop" /\ fetched' # fetched /\ cur'.nodes = <<>>)
          => /\ pc' = "loop"
             /\ result' = result
             /\ cmds' = cmds
             /\ q' = Tail(q)]_vars
  /\ []((pc = "done" /\ Len(fetched) = 1 /\ cur.id = root /\ cur.nodes = <<>>)
          => (result = "Ok" /\ cmds = <<>>))

C17_Witness ==
  /\ result = "Ok"
  /\ root # NotFound
  /\ cur.id = root
  /\ cur.nodes = <<>>
  /\ cur.layout \notin SplitLayouts
  /\ cmds = <<>>

\* C18: every child of the freshly fetched split container, one opened after
\* the start-up snapshot included, is found in the start-up snapshot of the
\* target, and the run never ends with the panic of a failed lookup.
C18_SnapshotLookupSucceeds ==
  /\ (cur.id # NotFound /\ cur.layout \in SplitLayouts) =>
       \A i \in DOMAIN cur.nodes :
         find_by_id(tree0, root, cur.nodes[i]) # NotFound
  /\ result # "panic_unwrap"

\* C19: for two orders of the same distinct identifiers min_swaps returns no
\* pair whose two components are the same identifier.
C19_NoSelfPair ==
  MinSwapsApplied =>
    \A i \in DOMAIN fnOut.swaps : fnOut.swaps[i][1] # fnOut.swaps[i][2]

\* the children of p all have the same size along p's axis
EqualSizes(t, p) ==
  \A i, j \in DOMAIN t.kids[p] :
    AxisSize(t, p, t.kids[p][i]) = AxisSize(t, p, t.kids[p][j])

\* C20: when all children of the fetched split container have the same size
\* along its axis, the target order is the current order and balance sends no
\* swap command for that container.
C20_EqualSizesNoSwap ==
  [][(pc = "loop" /\ fetched' # fetched /\ IsSplit(wm, cur'.id)
        /\ EqualSizes(wm, cur'.id))
       => /\ initial_order' = wm.kids[cur'.id]
          /\ target_order' = initial_order'
          /\ swaps' = <<>>
          /\ pc' # "swap"
          /\ cmds' = cmds]_vars

C20_Witness ==
  /\ result = "Ok"
  /\ ext = 0
  /\ cur.id = root
  /\ IsSplit(wm, root)
  /\ EqualSizes(wm, root)
  /\ Len(initial_order) >= 2
  /\ target_order = initial_order
  /\ cmds = <<>>

====
